---- MODULE Spec2Model ----
(***************************************************************************)
(* Model of the LLM email secretary: EmailProcessor.process_emails and the *)
(* operations it drives (folder_exists, get_unprocessed_emails,            *)
(* fetch_email, move_email, mark_as_processed), run against an IMAP store  *)
(* that numbers messages by position (sequence numbers) and by UID.        *)
(***************************************************************************)
EXTENDS Integers, Sequences, FiniteSets, TLC

VARIABLES
    \* ---- the mail store (IMAP server) ----
    mailbox,            \* folder -> sequence of messages [mid, uid, flags]
    uidnext,            \* folder -> next UID the server assigns there
    selected,           \* currently selected mailbox of the session, or NoBox
    session,            \* the session on the server: "closed", "open" (connected,
                        \* not logged in), "auth", or "lost" (the logout failed)
    hasMove,            \* the server advertises the MOVE capability
    existing,           \* destination folders that exist on the server
    dialect,            \* naming convention the server accepts / lists
    oversize,           \* messages whose raw size exceeds max_email_size_kb
    \* ---- configuration read at process start ----
    dry_run, skip_processed, max_emails_per_run, batch_size, folders_to_process,
    EMAIL_CATEGORIES,   \* category -> folder label
    self_categories,    \* EmailClassifier.categories: the classifier's category list
    admin,              \* the last category operation: [op, category, result]
    response,           \* LLMClient.classify_email: the text the LLM answered
    categories_arg,     \* LLMClient.classify_email: its `categories` argument
    verdict,            \* LLMClient.classify_email: what it returned
    \* ---- main.process_emails ----
    fm_session,         \* the session of FolderManager's own EmailProcessor
    llm_ok,             \* what classifier.test_llm_connection() returned
    \* ---- EmailProcessor.process_emails ----
    pc, connection, processed_count, success_count, folder_exists_cache,
    fidx,               \* index of `folder` in folders_to_process
    email_ids, bstart,  \* ids of the current folder, offset i of the batch
    batch, bpos,        \* current batch and position of email_id in it
    email_data,         \* mid of the fetched message, or NoMsg
    category, destination_folder,
    \* ---- EmailProcessor.move_email ----
    retry, ret, markctx,
    \* ---- history (not program state) ----
    run,                \* number of the current run
    faults,             \* commands (backend, LLM) made to fail so far
    faults0,            \* the value of faults when the run started
    truncated,          \* the per-run cap cut a query or stopped the folder loop
    queried,            \* [f, uid, m] of the messages this run's queries returned
    tried,              \* the ids of email_ids passed to fetch_email so far
    beyond,             \* <<folder, uid>> unprocessed but cut off by the cap
    fetched,            \* [f, uid, m, out] of the messages fetched in this run
                        \* and how the handling of each ended
    cmds,               \* commands issued for the current message
    attempts,           \* attempts made by the current move_email call
    moveOk,             \* some MOVE/copy of the current move_email call succeeded
    oracle,             \* what produced `category`: the LLM's answer, if any
    invoked,            \* how often processor_func was called in this run
    mailbox0,           \* the store as it was when the run started
    markedPrev,         \* <<folder, uid>> flagged PROCESSED by earlier runs
    backend,            \* mailboxes made by CREATE, as the wire names that made them
    refused,            \* CREATE commands the server has answered NO to
    creation            \* the create_folder_if_not_exists call and its history

store   == <<mailbox, uidnext, selected, session, hasMove, existing, dialect, oversize>>
config  == <<dry_run, skip_processed, max_emails_per_run, batch_size,
             folders_to_process, EMAIL_CATEGORIES, self_categories, admin>>
loop    == <<processed_count, success_count, folder_exists_cache, fidx,
             email_ids, bstart, batch, bpos, email_data, category,
             destination_folder>>
mover   == <<retry, ret, markctx>>
history == <<run, faults, faults0, truncated, queried, tried, beyond, fetched, cmds, attempts,
             moveOk, oracle, mailbox0, markedPrev>>
calls   == <<invoked>>
creator == <<backend, refused, creation>>
call    == <<response, categories_arg, verdict>>
preamble == <<fm_session, llm_ok>>
vars    == <<store, config, pc, connection, loop, mover, history, call, preamble,
             calls, creator>>

----------------------------------------------------------------------------
(* Bounds of the model *)
MaxInbox == 3       \* messages initially in INBOX
MaxRuns  == 2       \* consecutive runs of the program
MaxCap   == 2       \* largest max_emails_per_run
MaxBatch == 2       \* largest batch_size
NegBatch == 1       \* negative values of batch_size considered: -NegBatch..-1
MaxCreateCalls == 3 \* calls of create_folder_if_not_exists
MaxFaults == 1      \* backend commands that fail spuriously

----------------------------------------------------------------------------
(* Names *)
NoBox  == "<none>"
NoMsg  == 0
None   == "<None>"
Raised == "<exception>"

FALLBACK  == "requires_manual_intervention"
ManualDir == "Folders/ManualReview"
BillsDir  == "Folders/Bills"
PromoDir  == "Folders/Promotions"
DestLabels == {ManualDir, BillsDir, PromoDir}
Boxes      == {"INBOX"} \cup DestLabels

PROCESSED == "PROCESSED"
Deleted   == "\\Deleted"

\* A wire name is a label written in one of the conventions the code tries.
Name(v, l) == [v |-> v, l |-> l]


Variants == {"exact", "quoted", "upper", "lower",
             "inbox_slash", "inbox_dot", "folders", "labels"}

\* Server conventions: `sel` are the spellings of an existing folder that
\* select/copy accept, `lst` the spellings under which get_folders reports it.
Dialects == { [sel |-> {"exact", "quoted"}, lst |-> {"exact"}],
              [sel |-> {"folders"},         lst |-> {}],
              [sel |-> {},                  lst |-> {"exact"}] }

Min(S) == CHOOSE x \in S : \A y \in S : x <= y
Max(S) == CHOOSE x \in S : \A y \in S : x >= y

\* The mailbox the server opens for a wire name, or NoBox.
BoxOf(n) ==
    IF n.l = "INBOX"
    THEN IF n.v \in {"exact", "quoted", "upper", "lower"} THEN "INBOX" ELSE NoBox
    ELSE IF n.l \in existing /\ n.v \in dialect.sel THEN n.l ELSE NoBox

\* First wire name of `formats` (in order) that the server resolves.
FirstBox(formats, l) ==
    LET hits == {i \in 1..Len(formats) : BoxOf(Name(formats[i], l)) # NoBox}
    IN  IF hits = {} THEN NoBox ELSE BoxOf(Name(formats[Min(hits)], l))

\* get_folders: the parsed folder list, as the set of wire names it contains.
get_folders ==
    {n \in [v : Variants, l : Boxes] :
        \/ n.l = "INBOX" /\ n.v = "exact"
        \/ n.l \in existing /\ n.v \in dialect.lst}

list_formats   == <<"exact", "upper", "lower", "inbox_slash", "inbox_dot",
                    "folders", "labels">>
probe_formats  == <<"exact", "quoted", "upper", "lower", "inbox_slash",
                    "inbox_dot", "folders", "labels">>
select_formats == <<"exact", "quoted", "inbox_slash", "inbox_dot",
                    "folders", "labels">>
copy_formats   == <<"exact", "quoted", "inbox_slash", "inbox_dot",
                    "folders", "labels", "upper", "lower">>

\* (variant) a check that takes every folder to exist
folder_exists_anyway(folder_name, sel, broken) == [res |-> TRUE, sel |-> sel]

\* (variant) a check that selects the caller's mailbox again when it is done
folder_exists_restoring(folder_name, sel, broken) ==
    IF broken THEN [res |-> FALSE, sel |-> sel]
    ELSE IF \E i \in 1..Len(list_formats) :
                Name(list_formats[i], folder_name) \in get_folders
    THEN [res |-> TRUE, sel |-> sel]
    ELSE [res |-> FirstBox(probe_formats, folder_name) # NoBox, sel |-> sel]

\* folder_exists(folder_name) called while `sel` is selected: the verdict and
\* the mailbox selected afterwards.  `broken`: the LIST command raised.
folder_exists(folder_name, sel, broken) ==
    IF broken THEN [res |-> FALSE, sel |-> sel]
    ELSE IF \E i \in 1..Len(list_formats) :
                Name(list_formats[i], folder_name) \in get_folders
    THEN [res |-> TRUE, sel |-> sel]
    ELSE IF FirstBox(probe_formats, folder_name) # NoBox
    THEN [res |-> TRUE, sel |-> "INBOX"]
    ELSE [res |-> FALSE, sel |-> NoBox]

\* select_folder(folder_name): the mailbox selected afterwards (NoBox: -1).
select_folder(folder_name, broken) ==
    IF broken THEN NoBox ELSE FirstBox(select_formats, folder_name)

----------------------------------------------------------------------------
(* The store's commands on the message sequences *)
RemoveAt(s, i) == [j \in 1..(Len(s) - 1) |-> IF j < i THEN s[j] ELSE s[j + 1]]

RECURSIVE Keep(_, _)
Keep(s, flag) ==    \* the messages of s that do not carry `flag`
    IF s = <<>> THEN <<>>
    ELSE IF flag \in Head(s).flags THEN Keep(Tail(s), flag)
         ELSE <<Head(s)>> \o Keep(Tail(s), flag)

Valid(mb, box, id) == box # NoBox /\ id \in 1..Len(mb[box])

StoreFlag(mb, box, id, flag) ==
    [mb EXCEPT ![box][id].flags = @ \cup {flag}]

Append1(mb, un, dst, m) ==
    [mb EXCEPT ![dst] = Append(@, [m EXCEPT !.uid = un[dst]])]

Expunge(mb, box) == [mb EXCEPT ![box] = Keep(@, Deleted)]

\* positions of the message with this UID in the box (at most one)
UidPos(mb, box, uid) == {i \in 1..Len(mb[box]) : mb[box][i].uid = uid}

\* (variant) a search that pays no attention to the PROCESSED keyword
search_emails_all(box, criteria) == [i \in 1..Len(mailbox[box]) |-> i]

\* sequence numbers the SEARCH command returns in the selected mailbox
search_emails(box, criteria) ==
    LET s == mailbox[box]
        RECURSIVE Ids(_)
        Ids(i) == IF i > Len(s) THEN <<>>
                  ELSE IF criteria = "ALL" \/ PROCESSED \notin s[i].flags
                       THEN <<i>> \o Ids(i + 1) ELSE Ids(i + 1)
    IN  Ids(1)

Take(s, n) == IF Len(s) > n THEN SubSeq(s, 1, n) ELSE s


----------------------------------------------------------------------------
(* The category map (a dict: insertion-ordered pairs <<category, folder>>) *)
Keys(d)    == {d[i][1] : i \in 1..Len(d)}
Get(d, k)  == d[CHOOSE i \in 1..Len(d) : d[i][1] = k][2]
Folders(d) == {d[i][2] : i \in 1..Len(d)}

\* config.EMAIL_CATEGORIES as the module defines it
InitialCategories == << <<FALLBACK, ManualDir>>, <<"bills", BillsDir>>,
                        <<"promotional", PromoDir>> >>

\* EmailClassifier.__init__: self.categories = list(EMAIL_CATEGORIES.keys())
categories(d) == [i \in 1..Len(d) |-> d[i][1]]

\* no category operation was called yet
NoOp == [op |-> "none", category |-> None, result |-> FALSE]

\* create_folder_if_not_exists has not been called
NoCreation == [pc |-> "idle", folder_name |-> NoBox, folders |-> {}, format |-> 1,
               result |-> FALSE, creates |-> 0, made |-> 0, calls |-> 0,
               faults |-> 0, succeeded |-> {}]

\* What the LLM answers: nothing (ok = FALSE: no completion, or the API
\* raised), or a text, of which only the category names it contains matter.
LLMResult(ok, has) == [via |-> "llm", ok |-> ok, has |-> has]
LLMResults ==
    {LLMResult(FALSE, {})} \cup
    {LLMResult(TRUE, S) : S \in {{}, {FALLBACK}, {"bills"}, {"promotional"},
                                 {"bills", "promotional"}}}
Direct   == [via |-> "direct", ok |-> FALSE, has |-> {}]
NoOracle == [via |-> "none", ok |-> FALSE, has |-> {}]

\* (variant) the last category of the list that the answer contains
llm_classify_email_last(result, cats) ==
    LET hits == {i \in 1..Len(cats) : cats[i] \in result.has}
    IN  IF ~result.ok \/ hits = {} THEN None ELSE cats[Max(hits)]

\* LLMClient.classify_email: the first category (in list order) whose name
\* the lowercased answer contains, or None; every failure gives None.
llm_classify_email(result, cats) ==
    LET hits == {i \in 1..Len(cats) : cats[i] \in result.has}
    IN  IF ~result.ok \/ hits = {} THEN None ELSE cats[Min(hits)]

\* (variant) a classifier that hands a failed classification on as it is
classify_email_unmapped(result, cats) == llm_classify_email(result, cats)

\* EmailClassifier.classify_email
classify_email(result, cats) ==
    LET c == llm_classify_email(result, cats)
    IN  IF c # None THEN c ELSE FALLBACK

\* what a caller-supplied processor_func may do that the classifier cannot:
\* return a label that is no category, return None, or raise
Unrecognized == "newsletter"
Labels       == {Unrecognized, None, Raised}

max_retries == 3

----------------------------------------------------------------------------
(* Initial state: a store with 1..MaxInbox new messages in INBOX *)
FreshInbox(n) == [i \in 1..n |-> [mid |-> i, uid |-> i, flags |-> {}]]

\* the program's objects after construction, BATCH_SIZE being one of `sizes`
Setup(sizes) ==
    /\ \E n \in 1..MaxInbox :
         /\ mailbox = [b \in Boxes |-> IF b = "INBOX" THEN FreshInbox(n) ELSE <<>>]
         /\ uidnext = [b \in Boxes |-> IF b = "INBOX" THEN n + 1 ELSE 1]
    /\ selected = NoBox /\ session = "closed"
    /\ hasMove \in BOOLEAN
    /\ existing = {ManualDir}
    /\ dialect \in Dialects
    /\ oversize \in {{}, {2}}
    /\ dry_run \in BOOLEAN
    /\ skip_processed \in BOOLEAN
    /\ max_emails_per_run \in 1..MaxCap
    /\ batch_size \in sizes
    /\ folders_to_process \in {<<"INBOX">>, <<"INBOX", ManualDir>>}
    /\ EMAIL_CATEGORIES = InitialCategories
    /\ self_categories = categories(EMAIL_CATEGORIES)
    /\ admin = NoOp
    /\ pc = "idle" /\ connection = FALSE
    /\ processed_count = 0 /\ success_count = 0
    /\ folder_exists_cache = [f \in {} |-> FALSE]
    /\ fidx = 1 /\ email_ids = <<>> /\ bstart = 0 /\ batch = <<>> /\ bpos = 1
    /\ email_data = NoMsg /\ category = None /\ destination_folder = NoBox
    /\ retry = 0 /\ ret = FALSE /\ markctx = "none"
    /\ run = 0 /\ faults = 0 /\ faults0 = 0 /\ truncated = FALSE
    /\ queried = {} /\ beyond = {} /\ fetched = {} /\ cmds = {} /\ tried = <<>>
    /\ attempts = 0 /\ moveOk = FALSE /\ oracle = NoOracle
    /\ mailbox0 = mailbox /\ markedPrev = {}
    /\ fm_session = "closed" /\ llm_ok = TRUE
    /\ invoked = 0
    /\ backend = {} /\ refused = {} /\ creation = NoCreation

\* the program's objects after construction, with a positive batch size
Boot == Setup(1..MaxBatch)

\* LLMClient.classify_email has not been called
NoCall == "<not called>"

Init ==
    /\ Boot
    /\ response = <<>> /\ categories_arg = <<>> /\ verdict = NoCall

\* <<folder, uid>> of the messages that carry `flag`
Flagged(mb, flag) ==
    UNION { {<<b, mb[b][i].uid>> : i \in {j \in 1..Len(mb[b]) : flag \in mb[b][j].flags}}
            : b \in Boxes }

\* the messages at the sequence numbers ids, as [f, uid, m] / <<folder, uid>>
InstAt(box, ids) == {[f |-> box, uid |-> mailbox[box][ids[i]].uid,
                      m |-> mailbox[box][ids[i]].mid] : i \in 1..Len(ids)}
UidsAt(box, ids) == {<<box, mailbox[box][ids[i]].uid>> : i \in 1..Len(ids)}

\* a backend command may fail spuriously while the fault budget lasts
MayFail(broken) == broken => faults < MaxFaults
Count(broken)   == IF broken THEN faults + 1 ELSE faults

\* history: the handling of the message being processed ended as `o`
Settle(o) == {IF r.out = "pending" THEN [r EXCEPT !.out = o] ELSE r : r \in fetched}


----------------------------------------------------------------------------
(* main: a new process starts; config.py reads the environment *)
Launch ==
    /\ pc \in {"idle", "done", "raised"}
    /\ run < MaxRuns
    /\ run' = run + 1
    /\ UNCHANGED <<dry_run, skip_processed, max_emails_per_run, batch_size, folders_to_process>>
    /\ pc' = "ensure"
    /\ fm_session' = "closed" /\ llm_ok' = TRUE
    /\ processed_count' = 0 /\ success_count' = 0 /\ invoked' = 0
    /\ folder_exists_cache' = [f \in {} |-> FALSE]
    /\ fidx' = 1 /\ email_ids' = <<>> /\ bstart' = 0 /\ batch' = <<>> /\ bpos' = 1
    /\ faults0' = faults /\ truncated' = FALSE
    /\ queried' = {} /\ beyond' = {} /\ fetched' = {} /\ tried' = <<>>
    /\ mailbox0' = mailbox
    /\ markedPrev' = Flagged(mailbox, PROCESSED)
    /\ connection' = FALSE /\ session' = "closed" /\ selected' = NoBox
    /\ UNCHANGED <<creator, call, oracle, mailbox, uidnext, hasMove, existing, dialect, oversize,
                   EMAIL_CATEGORIES, self_categories, admin, email_data, category,
                   destination_folder, mover, faults, cmds, attempts, moveOk>>

\* FolderManager.ensure_category_folders_exist: the session of its own
\* processor after the call.  A failed connect returns before the try (the
\* session of a failed login stays open); otherwise the folders are listed
\* and compared, nothing is created, and `finally` disconnects
ensure_category_folders_exist(o, broken) ==
    CASE o = "no_socket" -> "closed"
      [] o = "no_login"  -> "open"
      [] o = "ok"        -> IF broken THEN "lost" ELSE "closed"

\* (variant) a folder check that creates the folders it misses
folders_created_when_missing(ex, d) == ex \cup Folders(d)

\* FolderManager.ensure_category_folders_exist: the folders on the server
\* after the comparison of the folder list with the category map ("This
\* method does not create folders": a missing folder is only warned about)
folders_after_check(ex, d) == ex

\* main.process_emails: `folder_manager.ensure_category_folders_exist()`;
\* its result only decides a warning
EnsureCategoryFolders ==
    /\ pc = "ensure"
    /\ \E o \in {"ok", "no_socket", "no_login"} : \E broken \in BOOLEAN :
         /\ broken => o = "ok"
         /\ MayFail(o # "ok" \/ broken)
         /\ fm_session' = ensure_category_folders_exist(o, broken)
         /\ existing' = IF o = "ok"
                         THEN folders_after_check(existing, EMAIL_CATEGORIES)
                         ELSE existing
         /\ faults' = Count(o # "ok" \/ broken)
    /\ pc' = "preflight"
    /\ UNCHANGED <<creator, calls, call, llm_ok, mailbox, uidnext, selected, session, hasMove,
                   dialect, oversize, config, connection, loop, mover, run,
                   faults0, truncated, queried, tried, beyond, fetched, cmds,
                   attempts, moveOk, oracle, mailbox0, markedPrev>>

\* (variant) a run that goes on although the LLM did not answer
after_test_regardless(ok) == "connect"

\* main.process_emails: `if not classifier.test_llm_connection(): return 0, 0`
after_test(ok) == IF ok THEN "connect" ELSE "done"

\* LLMClient.test_connection: True when the chat completion or the plain
\* completion returns a text, False otherwise (exceptions included)
TestLLMConnection ==
    /\ pc = "preflight"
    /\ \E ok \in BOOLEAN :
         /\ MayFail(~ok)
         /\ llm_ok' = ok
         /\ pc' = after_test(ok)
         /\ faults' = Count(~ok)
    /\ UNCHANGED <<creator, calls, call, fm_session, store, config, connection, loop, mover,
                   run, faults0, truncated, queried, tried, beyond, fetched,
                   cmds, attempts, moveOk, oracle, mailbox0, markedPrev>>

\* (variant) a run that goes on although connect() returned False
AfterConnectRegardless(ok) == "cache"

\* process_emails: `if not self.connect(): return 0, 0`
AfterConnect(ok) == IF ok THEN "cache" ELSE "done"

\* EmailProcessor.connect, called first by process_emails: both socket
\* attempts may fail (no handle is assigned), or the login may fail (the
\* handle of the opened, unauthenticated session stays in self.connection)
Connect ==
    /\ pc = "connect"
    /\ \E o \in {"ok", "no_socket", "no_login"} :
         /\ MayFail(o # "ok")
         /\ connection' = (o # "no_socket")
         /\ session' = CASE o = "ok" -> "auth"
                         [] o = "no_login" -> "open"
                         [] o = "no_socket" -> "closed"
         /\ pc' = AfterConnect(o = "ok")
         /\ faults' = Count(o # "ok")
    /\ UNCHANGED <<creator, calls, preamble, call, oracle, mailbox, uidnext, selected, hasMove, existing, dialect,
                   oversize, config, loop, mover, run, faults0, truncated,
                   queried, tried, beyond, fetched, cmds, attempts, moveOk, mailbox0,
                   markedPrev>>

\* the mailbox selected after folder_exists ran for the first i categories;
\* `bad`: the folders for which the LIST command raised
RECURSIVE SelAfter(_, _, _)
SelAfter(d, i, bad) ==
    IF i = 0 THEN selected
    ELSE folder_exists(d[i][2], SelAfter(d, i - 1, bad), d[i][2] \in bad).sel

\* process_emails: fill folder_exists_cache for every category
CheckFolders ==
    /\ pc = "cache"
    /\ \E bad \in {{}} \cup {{f} : f \in Folders(EMAIL_CATEGORIES)} :
         /\ MayFail(bad # {})
         /\ folder_exists_cache' =
                [f \in Folders(EMAIL_CATEGORIES) |->
                    folder_exists(f, selected, f \in bad).res]
         /\ selected' = SelAfter(EMAIL_CATEGORIES, Len(EMAIL_CATEGORIES), bad)
         /\ faults' = Count(bad # {})
    /\ pc' = "folder"
    /\ UNCHANGED <<creator, calls, preamble, call, oracle, session, mailbox, uidnext, hasMove, existing, dialect, oversize, config,
                   connection, processed_count, success_count, fidx, email_ids,
                   bstart, batch, bpos, email_data, category, destination_folder,
                   mover, run, faults0, truncated, queried, tried, beyond, fetched, cmds, attempts,
                   moveOk, mailbox0, markedPrev>>

\* what get_unprocessed_emails finds in `folder` before the limit is applied
Unprocessed(f, brokenSelect, brokenSearch) ==
    LET box == select_folder(f, brokenSelect)
    IN  IF box = NoBox \/ Len(mailbox[box]) <= 0 \/ brokenSearch THEN <<>>
        ELSE search_emails(box, IF skip_processed THEN "NOT KEYWORD PROCESSED"
                                                  ELSE "ALL")

\* get_unprocessed_emails(folder_name, limit)
get_unprocessed_emails(f, limit, brokenSelect, brokenSearch) ==
    Take(Unprocessed(f, brokenSelect, brokenSearch), limit)

\* messages of the folders from index i on that the cap keeps out of the run
RECURSIVE Unqueried(_)
Unqueried(i) ==
    IF i > Len(folders_to_process) THEN {}
    ELSE LET box == select_folder(folders_to_process[i], FALSE)
             ids == Unprocessed(folders_to_process[i], FALSE, FALSE)
         IN  (IF box = NoBox THEN {} ELSE UidsAt(box, ids)) \cup Unqueried(i + 1)

\* process_emails: head of `for folder in self.folders_to_process`
NextFolder ==
    /\ pc = "folder"
    /\ IF fidx > Len(folders_to_process)
       THEN /\ pc' = "finish"
            /\ UNCHANGED <<selected, email_ids, bstart, faults, truncated,
                           queried, tried, beyond>>
       ELSE IF max_emails_per_run - processed_count <= 0
       THEN /\ pc' = "finish"
            /\ truncated' = (truncated \/ Unqueried(fidx) # {})
            /\ beyond' = beyond \cup Unqueried(fidx)
            /\ UNCHANGED <<selected, email_ids, bstart, faults, queried, tried>>
       ELSE \E brokenSelect, brokenSearch \in BOOLEAN :
            LET f == folders_to_process[fidx]
                remaining == max_emails_per_run - processed_count
                box == select_folder(f, brokenSelect)
                all == Unprocessed(f, brokenSelect, brokenSearch)
                ids == get_unprocessed_emails(f, remaining, brokenSelect,
                                              brokenSearch)
            IN  /\ ~(brokenSelect /\ brokenSearch)
                /\ MayFail(brokenSelect \/ brokenSearch)
                /\ selected' = box
                /\ email_ids' = ids
                /\ bstart' = 0
                /\ pc' = "batch"
                /\ faults' = Count(brokenSelect \/ brokenSearch)
                /\ truncated' = (truncated \/ Len(all) > Len(ids))
                /\ tried' = <<>>
                /\ queried' = queried \cup
                        (IF box = NoBox THEN {} ELSE InstAt(box, ids))
                /\ beyond' = beyond \cup
                        (IF box = NoBox THEN {}
                         ELSE UidsAt(box, all) \ UidsAt(box, ids))
    /\ UNCHANGED <<creator, calls, preamble, call, oracle, session, mailbox, uidnext, hasMove, existing, dialect, oversize, config,
                   connection, processed_count, success_count, folder_exists_cache,
                   fidx, batch, bpos, email_data, category, destination_folder,
                   mover, run, faults0, fetched, cmds, attempts, moveOk,
                   mailbox0, markedPrev>>

\* (variant) a batch that runs to the end of the ids
slice_to_end(ids, i, size) == SubSeq(ids, i + 1, Len(ids))

\* `email_ids[i:i + self.batch_size]` for 0 <= i < len(email_ids), size > 0
slice(ids, i, size) ==
    SubSeq(ids, i + 1, IF i + size > Len(ids) THEN Len(ids) ELSE i + size)

\* process_emails: head of `for i in range(0, len(email_ids), self.batch_size)`.
\* range() raises ValueError for a step of 0 (the exception leaves
\* process_emails through its finally) and is empty for a negative step
NextBatch ==
    /\ pc = "batch"
    /\ IF batch_size = 0
       THEN /\ pc' = "unwind"
            /\ UNCHANGED <<fidx, batch, bpos>>
       ELSE IF batch_size < 0 \/ bstart >= Len(email_ids)
       THEN /\ fidx' = fidx + 1
            /\ pc' = "folder"
            /\ batch' = <<>> /\ bpos' = 1
       ELSE /\ batch' = slice(email_ids, bstart, batch_size)
            /\ bpos' = 1
            /\ pc' = "fetch"
            /\ fidx' = fidx
    /\ UNCHANGED <<creator, calls, preamble, call, oracle, store, config, connection, processed_count, success_count,
                   folder_exists_cache, email_ids, bstart, email_data, category,
                   destination_folder, mover, history>>

\* process_emails: the batch is exhausted; time.sleep(1) and the next i
EndBatch ==
    /\ pc = "fetch"
    /\ bpos > Len(batch)
    /\ bstart' = bstart + batch_size
    /\ pc' = "batch"
    /\ UNCHANGED <<creator, calls, preamble, call, oracle, store, config, connection, processed_count, success_count,
                   folder_exists_cache, fidx, email_ids, batch, bpos, email_data,
                   category, destination_folder, mover, history>>

----------------------------------------------------------------------------
(* Handling of one message *)
email_id == batch[bpos]
folder   == folders_to_process[fidx]

\* (variant) the batch is abandoned after the message at position i
BreakBatch(i) == Len(batch) + 1

\* `for email_id in batch`: the position handled after position i, whether
\* the body ended by `continue`, normally or in the except branch
NextId(i) == i + 1

\* back to `for email_id in batch` with the next id
Continue ==
    /\ bpos' = NextId(bpos)
    /\ pc' = "fetch"
    /\ email_data' = NoMsg
    /\ category' = None
    /\ destination_folder' = NoBox
    /\ retry' = 0 /\ ret' = FALSE /\ markctx' = "none"
    /\ cmds' = {} /\ attempts' = 0 /\ moveOk' = FALSE
    /\ oracle' = NoOracle

\* fetch_email(email_id): None on a failed fetch or an oversized message
fetch_email(id, broken) ==
    IF ~Valid(mailbox, selected, id) \/ broken THEN NoMsg
    ELSE IF mailbox[selected][id].mid \in oversize THEN NoMsg
    ELSE mailbox[selected][id].mid

\* (variant) a loop that forgets to count the message it fetched
count_processed_forgotten(n) == n

\* process_emails: `processed_count += 1`, once fetch_email returned a message
count_processed(n) == n + 1

Fetch ==
    /\ pc = "fetch"
    /\ bpos <= Len(batch)
    /\ \E broken \in BOOLEAN :
         LET data == fetch_email(email_id, broken)
         IN  /\ MayFail(broken)
             /\ faults' = Count(broken)
             /\ tried' = Append(tried, email_id)
             /\ IF data = NoMsg
                THEN /\ bpos' = NextId(bpos)
                     /\ UNCHANGED <<pc, email_data, processed_count, fetched>>
                ELSE /\ email_data' = data
                     /\ processed_count' = count_processed(processed_count)
                     /\ pc' = "classify"
                     /\ fetched' = fetched \cup
                            {[f |-> selected, uid |-> mailbox[selected][email_id].uid,
                              m |-> data, out |-> "pending"]}
                     /\ bpos' = bpos
    /\ UNCHANGED <<creator, calls, preamble, call, oracle, store, config, connection, success_count, folder_exists_cache,
                   fidx, email_ids, bstart, batch, category, destination_folder,
                   mover, run, faults0, truncated, queried, beyond, cmds, attempts, moveOk,
                   mailbox0, markedPrev>>

\* folder_exists_cache.get(destination_folder, False)
CacheGet(f) == IF f \in DOMAIN folder_exists_cache THEN folder_exists_cache[f]
               ELSE FALSE

\* where process_emails goes with the category its processor_func returned
\* (Raised: the call raised): the next step and the destination folder
\* (variant) a dry-run test that looks at the folder cache only
should_dry_run_cache_only(d) == ~CacheGet(d)

\* should_dry_run = dry_run or not folder_exists_cache.get(destination_folder, False)
should_dry_run(d) == dry_run \/ ~CacheGet(d)

Route(c) ==
    IF c = Raised THEN [pc |-> "mark", ctx |-> "error", dest |-> NoBox]
    ELSE IF c # None /\ c \in Keys(EMAIL_CATEGORIES)
    THEN LET d == Get(EMAIL_CATEGORIES, c)
         IN  IF should_dry_run(d) THEN [pc |-> "mark", ctx |-> "dry", dest |-> d]
             ELSE [pc |-> "mv_exists", ctx |-> "none", dest |-> d]
    ELSE [pc |-> "mark", ctx |-> "unknown", dest |-> NoBox]

\* category = processor_func(email_data): main's classify_and_get_category
\* (the EmailClassifier), or any other callable handed to process_emails
Classify ==
    /\ pc = "classify"
    /\ \/ \E r \in LLMResults :
            /\ oracle' = r
            /\ category' = classify_email(r, self_categories)
       \/ \E c \in Labels :
            /\ oracle' = Direct
            /\ category' = c
    /\ pc' = "route"
    /\ invoked' = invoked + 1
    /\ UNCHANGED <<creator, preamble, call, store, config, connection, processed_count, success_count,
                   folder_exists_cache, fidx, email_ids, bstart, batch, bpos,
                   email_data, destination_folder, mover, run, faults, faults0,
                   truncated, queried, tried, beyond, fetched, cmds, attempts, moveOk,
                   mailbox0, markedPrev>>

\* process_emails: `if category and category in EMAIL_CATEGORIES` ... else ...
\* except
RouteEmail ==
    /\ pc = "route"
    /\ LET r == Route(category)
       IN  /\ destination_folder' = r.dest
           /\ pc' = r.pc
           /\ markctx' = r.ctx
    /\ UNCHANGED <<creator, calls, preamble, call, store, config, connection, processed_count, success_count,
                   folder_exists_cache, fidx, email_ids, bstart, batch, bpos,
                   email_data, category, retry, ret, history>>

\* (variant) a count that goes up for every message
TallyAlways(n, success) == n + 1

\* `success_count += 1` where the message counts as a success, i.e. in the
\* would-move branch and `if self.move_email(...)`
Tally(n, success) == IF success THEN n + 1 ELSE n

\* (variant) every call that ends in marking the message reports failure
move_email_returns_false(ctx) == FALSE

\* what move_email returns after it marked the message itself: True when the
\* copy had succeeded ("return partial success"), False otherwise
move_email_returns(ctx) == ctx = "partial"

\* mark_as_processed(email_id), and what its caller does next
Mark ==
    /\ pc = "mark"
    /\ \E broken \in BOOLEAN :
         LET ok == Valid(mailbox, selected, email_id) /\ ~broken
         IN  /\ MayFail(broken)
             /\ mailbox' = IF ok THEN StoreFlag(mailbox, selected, email_id, PROCESSED)
                           ELSE mailbox
             /\ faults' = Count(broken)
             /\ CASE markctx = "dry" ->
                       /\ success_count' = Tally(success_count, TRUE)
                       /\ fetched' = Settle("would_move")
                       /\ Continue
                  [] markctx \in {"unknown", "error"} ->
                       /\ success_count' = success_count
                       /\ fetched' = Settle(markctx)
                       /\ Continue
                  [] markctx = "failed" ->
                       /\ success_count' = success_count
                       /\ UNCHANGED fetched
                       /\ Continue
                  [] markctx \in {"nodest", "exhausted", "partial"} ->
                       /\ ret' = move_email_returns(markctx)
                       /\ pc' = "mv_ret" /\ markctx' = "none"
                       /\ fetched' = Settle(markctx)
                       /\ cmds' = cmds \cup {IF ok THEN "mark" ELSE "markfail"}
                       /\ UNCHANGED <<success_count, bpos, email_data, category,
                                      destination_folder, retry, attempts, moveOk,
                                      oracle>>
    /\ UNCHANGED <<creator, calls, preamble, call, session, uidnext, selected, hasMove, existing, dialect, oversize, config,
                   connection, processed_count, folder_exists_cache, fidx,
                   email_ids, bstart, batch, run, faults0, truncated, queried, tried, beyond,
                   mailbox0, markedPrev>>

----------------------------------------------------------------------------
(* move_email(email_id, folder, destination_folder) *)
Outcomes == {"ok", "no", "raise"}      \* OK status, non-OK status, exception

\* move_email: `if not self.folder_exists(destination_folder)`
MoveCheckDest ==
    /\ pc = "mv_exists"
    /\ \E broken \in BOOLEAN :
         LET r == folder_exists(destination_folder, selected, broken)
         IN  /\ MayFail(broken)
             /\ selected' = r.sel
             /\ faults' = Count(broken)
             /\ IF r.res
                THEN pc' = "mv_select" /\ UNCHANGED markctx
                ELSE pc' = "mark" /\ markctx' = "nodest"
    /\ UNCHANGED <<creator, calls, preamble, call, oracle, session, mailbox, uidnext, hasMove, existing, dialect, oversize, config,
                   connection, loop, retry, ret, run, faults0, truncated, queried, tried,
                   beyond, fetched, cmds, attempts, moveOk, mailbox0, markedPrev>>

\* move_email: `if self.select_folder(source_folder) <= 0: return False`
MoveSelectSource ==
    /\ pc = "mv_select"
    /\ \E broken \in BOOLEAN :
         LET box == select_folder(folder, broken)
         IN  /\ MayFail(broken)
             /\ selected' = box
             /\ faults' = Count(broken)
             /\ IF box = NoBox \/ Len(mailbox[box]) <= 0
                THEN /\ ret' = FALSE /\ pc' = "mv_ret"
                     /\ fetched' = Settle("noselect")
                     /\ UNCHANGED retry
                ELSE /\ retry' = 0 /\ pc' = "mv_try"
                     /\ UNCHANGED <<ret, fetched>>
    /\ UNCHANGED <<creator, calls, preamble, call, oracle, session, mailbox, uidnext, hasMove, existing, dialect, oversize, config,
                   connection, loop, markctx, run, faults0, truncated, queried, tried,
                   beyond, cmds, attempts, moveOk, mailbox0, markedPrev>>

\* UID MOVE <uid> <dst> in the selected mailbox: a UID that names no message
\* is ignored and the command still answers OK.
UidMove(mb, un, src, uid, dst) ==
    LET at == UidPos(mb, src, uid)
    IN  IF at = {} THEN mb
        ELSE LET i == CHOOSE j \in at : TRUE
                 m == mb[src][i]
             IN  Append1([mb EXCEPT ![src] = RemoveAt(@, i)], un, dst, m)

UidMoveNext(mb, un, src, uid, dst) ==
    IF UidPos(mb, src, uid) = {} THEN un ELSE [un EXCEPT ![dst] = @ + 1]

\* (variant) a retry loop that is off by one
RetryOnceMore ==
    IF retry < max_retries
    THEN retry' = retry + 1 /\ pc' = "mv_try" /\ UNCHANGED markctx
    ELSE pc' = "mark" /\ markctx' = "exhausted" /\ UNCHANGED retry

\* after a failed attempt: `continue` / retry, or give up after max_retries
Retry ==
    IF retry < max_retries - 1
    THEN retry' = retry + 1 /\ pc' = "mv_try" /\ UNCHANGED markctx
    ELSE pc' = "mark" /\ markctx' = "exhausted" /\ UNCHANGED retry

\* one pass of `for retry in range(max_retries)`: the native MOVE command
\* (variant) a MOVE whose OK answer does not end the attempt
after_move_falling_through(status) == "mv_copy"

\* move_email: `if status == 'OK': return True` after the MOVE command;
\* any other answer, or an exception, falls through to the copy
after_move(status) == IF status = "ok" THEN "mv_ret" ELSE "mv_copy"

MoveNative ==
    /\ pc = "mv_try"
    /\ attempts' = attempts + 1
    /\ IF hasMove
       THEN \E o \in Outcomes :
              LET dst == BoxOf(Name("exact", destination_folder))
                  ok  == o = "ok" /\ dst # NoBox
              IN  /\ MayFail(o # "ok")
                  /\ cmds' = cmds \cup {"move"}
                  /\ faults' = Count(o # "ok")
                  /\ IF ok
                     THEN /\ mailbox' = UidMove(mailbox, uidnext, selected,
                                                email_id, dst)
                          /\ uidnext' = UidMoveNext(mailbox, uidnext, selected,
                                                    email_id, dst)
                          /\ ret' = TRUE /\ pc' = after_move("ok")
                          /\ moveOk' = TRUE
                          /\ fetched' = Settle("moved")
                     ELSE /\ pc' = after_move("no")
                          /\ UNCHANGED <<mailbox, uidnext, ret, moveOk, fetched>>
       ELSE /\ pc' = "mv_copy"
            /\ UNCHANGED <<mailbox, uidnext, ret, moveOk, cmds, faults, fetched>>
    /\ UNCHANGED <<creator, calls, preamble, call, oracle, session, selected, hasMove, existing, dialect, oversize, config,
                   connection, loop, retry, markctx, run, faults0, truncated, queried, tried,
                   beyond, mailbox0, markedPrev>>

\* the copy candidates (positions in copy_formats) the server resolves
Resolving(d) ==
    {i \in 1..Len(copy_formats) : BoxOf(Name(copy_formats[i], d)) # NoBox}

\* (variant) a fallback that goes on to the \Deleted store whatever the copies
\* answered
copy_success_assumed(ok) == TRUE

\* move_email: copy_success, set when a copy answered OK; `if not
\* copy_success` retries or gives up, otherwise the \Deleted store follows
copy_success(ok) == ok

\* `for folder_format in formats_to_try`: COPY with one candidate after the
\* other until one answers OK; k of the resolvable candidates fail spuriously
MoveCopy ==
    /\ pc = "mv_copy"
    /\ \E k \in 0..(MaxFaults - faults) :
         LET R   == Resolving(destination_folder)
             ok  == Cardinality(R) > k /\ Valid(mailbox, selected, email_id)
             dst == BoxOf(Name(copy_formats[Min(R)], destination_folder))
         IN  /\ k <= Cardinality(R)
             /\ faults' = faults + k
             /\ IF ok
                THEN /\ mailbox' = Append1(mailbox, uidnext, dst,
                                           mailbox[selected][email_id])
                     /\ uidnext' = [uidnext EXCEPT ![dst] = @ + 1]
                     /\ moveOk' = TRUE
                ELSE UNCHANGED <<mailbox, uidnext, moveOk>>
             /\ IF copy_success(ok)
                THEN pc' = "mv_del" /\ UNCHANGED <<retry, markctx>>
                ELSE Retry
    /\ cmds' = cmds \cup {"copy"}
    /\ UNCHANGED <<creator, calls, preamble, call, oracle, session, selected, hasMove, existing, dialect, oversize, config,
                   connection, loop, ret, run, faults0, truncated, queried, tried, beyond,
                   fetched, attempts, mailbox0, markedPrev>>

\* store(email_id, '+FLAGS', '\\Deleted') on the copied message: a non-OK
\* status ends the call as a partial success, an exception goes to the retry
MoveStoreDeleted ==
    /\ pc = "mv_del"
    /\ \E o \in Outcomes :
         LET status == IF Valid(mailbox, selected, email_id) \/ o = "raise"
                       THEN o ELSE "no"
         IN  /\ MayFail(o # "ok")
             /\ faults' = Count(o # "ok")
             /\ cmds' = cmds \cup {"delete"} \cup
                        (IF status = "no" THEN {"delete_no"} ELSE {})
             /\ CASE status = "ok" ->
                       /\ mailbox' = StoreFlag(mailbox, selected, email_id, Deleted)
                       /\ pc' = "mv_expunge"
                       /\ UNCHANGED <<retry, markctx>>
                  [] status = "no" ->
                       /\ pc' = "mark" /\ markctx' = "partial"
                       /\ UNCHANGED <<mailbox, retry>>
                  [] status = "raise" ->
                       /\ UNCHANGED mailbox
                       /\ Retry
    /\ UNCHANGED <<creator, calls, preamble, call, oracle, session, uidnext, selected, hasMove, existing, dialect, oversize,
                   config, connection, loop, ret, run, faults0, truncated, queried, tried,
                   beyond, fetched, attempts, moveOk, mailbox0, markedPrev>>

\* expunge(): removes every message of the selected mailbox marked \Deleted
MoveExpunge ==
    /\ pc = "mv_expunge"
    /\ \E o \in Outcomes :
         /\ MayFail(o # "ok")
         /\ faults' = Count(o # "ok")
         /\ cmds' = cmds \cup {"expunge"} \cup
                    (IF o = "no" THEN {"expunge_no"} ELSE {})
         /\ CASE o = "ok" ->
                   /\ mailbox' = Expunge(mailbox, selected)
                   /\ ret' = TRUE /\ pc' = "mv_ret"
                   /\ fetched' = Settle("moved")
                   /\ UNCHANGED <<retry, markctx>>
              [] o = "no" ->
                   /\ pc' = "mark" /\ markctx' = "partial"
                   /\ UNCHANGED <<mailbox, ret, fetched, retry>>
              [] o = "raise" ->
                   /\ UNCHANGED <<mailbox, ret, fetched>>
                   /\ Retry
    /\ UNCHANGED <<creator, calls, preamble, call, oracle, session, uidnext, selected, hasMove, existing, dialect, oversize,
                   config, connection, loop, run, faults0, truncated, queried, tried, beyond,
                   attempts, moveOk, mailbox0, markedPrev>>

\* (variant) a caller that tries the move again when move_email returned False
MoveReturnTryingAgain ==
    /\ pc = "mv_ret"
    /\ success_count' = Tally(success_count, ret)
    /\ IF ret
       THEN Continue
       ELSE /\ pc' = "mv_try" /\ markctx' = "none"
            /\ UNCHANGED <<bpos, email_data, category,
                           destination_folder, retry, ret, cmds, attempts,
                           moveOk, oracle>>
    /\ UNCHANGED <<creator, calls, preamble, call, store, config, connection, processed_count,
                   folder_exists_cache, fidx, email_ids, bstart, batch, run,
                   faults, faults0, truncated, queried, tried, beyond, fetched, mailbox0,
                   markedPrev>>

\* process_emails: `if self.move_email(...): success_count += 1` / else mark
MoveReturn ==
    /\ pc = "mv_ret"
    /\ success_count' = Tally(success_count, ret)
    /\ IF ret
       THEN Continue
       ELSE /\ pc' = "mark" /\ markctx' = "failed"
            /\ UNCHANGED <<bpos, email_data, category,
                           destination_folder, retry, ret, cmds, attempts,
                           moveOk, oracle>>
    /\ UNCHANGED <<creator, calls, preamble, call, store, config, connection, processed_count,
                   folder_exists_cache, fidx, email_ids, bstart, batch, run,
                   faults, faults0, truncated, queried, tried, beyond, fetched, mailbox0,
                   markedPrev>>

\* EmailProcessor.disconnect: logout (its failure is swallowed), then the
\* handle is dropped
disconnect(broken) ==
    IF connection
    THEN [connection |-> FALSE, session |-> IF broken THEN "lost" ELSE "closed"]
    ELSE [connection |-> connection, session |-> session]

\* process_emails: `finally: self.disconnect()` and the return of the counts,
\* or the exception going on to the caller
Finish ==
    /\ pc \in {"finish", "unwind"}
    /\ \E broken \in BOOLEAN :
         /\ MayFail(broken)
         /\ faults' = Count(broken)
         /\ connection' = disconnect(broken).connection
         /\ session' = disconnect(broken).session
    /\ selected' = NoBox
    /\ pc' = IF pc = "unwind" THEN "raised" ELSE "done"
    /\ UNCHANGED <<creator, calls, preamble, call, oracle, mailbox, uidnext, hasMove, existing, dialect, oversize,
                   config, loop, mover, run, faults0, truncated, queried, tried, beyond,
                   fetched, cmds, attempts, moveOk, mailbox0, markedPrev>>

Next ==
    \/ Launch \/ EnsureCategoryFolders \/ TestLLMConnection
    \/ Connect \/ CheckFolders \/ NextFolder \/ NextBatch \/ EndBatch
    \/ Fetch \/ Classify \/ RouteEmail \/ Mark
    \/ MoveCheckDest \/ MoveSelectSource \/ MoveNative \/ MoveCopy
    \/ MoveStoreDeleted \/ MoveExpunge \/ MoveReturn \/ Finish

Spec == Init /\ [][Next]_vars

\* the same program with BATCH_SIZE any integer of -NegBatch..MaxBatch
\* (config.py: int(os.getenv('BATCH_SIZE', 10)), not validated)
BatchInit ==
    /\ Setup((0 - NegBatch)..MaxBatch)
    /\ response = <<>> /\ categories_arg = <<>> /\ verdict = NoCall

BatchSpec == BatchInit /\ [][Next]_vars

----------------------------------------------------------------------------
(* The category operations of EmailClassifier and FolderManager, called in
   any order on the objects of one process.  FolderManager.category_folders
   is the dict EMAIL_CATEGORIES itself. *)
CategoryNames == {FALLBACK, "bills", Unrecognized}
FolderNames   == {BillsDir, PromoDir}

Elems(l)   == {l[i] : i \in 1..Len(l)}
\* list.remove(x): the first occurrence goes
ListRemove(l, x) == RemoveAt(l, Min({i \in 1..Len(l) : l[i] = x}))
\* d[k] = v and del d[k] on the ordered dict
Put(d, k, v) ==
    IF k \in Keys(d) THEN [i \in 1..Len(d) |-> IF d[i][1] = k THEN <<k, v>> ELSE d[i]]
    ELSE Append(d, <<k, v>>)
Del(d, k) == RemoveAt(d, CHOOSE i \in 1..Len(d) : d[i][1] = k)

\* the outcome of an operation: its return value, the list and the dict
Outcome(result, cats, d) == [result |-> result, categories |-> cats, map |-> d]

\* (variant) an add_category that leaves the category map alone
add_category_list_only(cats, d, c, f) ==
    IF c \in Elems(cats) THEN Outcome(FALSE, cats, d)
    ELSE Outcome(TRUE, Append(cats, c), d)

\* EmailClassifier.add_category(category, folder)
add_category(cats, d, c, f) ==
    IF c \in Elems(cats) THEN Outcome(FALSE, cats, d)
    ELSE Outcome(TRUE, Append(cats, c), Put(d, c, f))

\* (variant) a remove_category without the guard on the fallback category
remove_category_unguarded(cats, d, c) ==
    IF c \notin Elems(cats) THEN Outcome(FALSE, cats, d)
    ELSE Outcome(TRUE, ListRemove(cats, c),
                 IF c \in Keys(d) THEN Del(d, c) ELSE d)

\* EmailClassifier.remove_category(category)
remove_category(cats, d, c) ==
    IF c \notin Elems(cats) THEN Outcome(FALSE, cats, d)
    ELSE IF c = FALLBACK THEN Outcome(FALSE, cats, d)
    ELSE Outcome(TRUE, ListRemove(cats, c),
                 IF c \in Keys(d) THEN Del(d, c) ELSE d)

\* (variant) an add_category_folder that enters the category before it
\* knows that the folder could be created
add_category_folder_eager(cats, d, c, f, created) ==
    IF c \in Keys(d) THEN Outcome(FALSE, cats, d)
    ELSE IF ~created THEN Outcome(FALSE, cats, Put(d, c, f))
    ELSE Outcome(TRUE, cats, Put(d, c, f))

\* FolderManager.add_category_folder(category, folder_name); created: what
\* create_folder(folder_name) returned
add_category_folder(cats, d, c, f, created) ==
    IF c \in Keys(d) THEN Outcome(FALSE, cats, d)
    ELSE IF ~created THEN Outcome(FALSE, cats, d)
    ELSE Outcome(TRUE, cats, Put(d, c, f))

\* FolderManager.remove_category_folder(category)
remove_category_folder(cats, d, c) ==
    IF c \notin Keys(d) THEN Outcome(FALSE, cats, d)
    ELSE IF c = FALLBACK THEN Outcome(FALSE, cats, d)
    ELSE Outcome(TRUE, cats, Del(d, c))

\* FolderManager.update_category_folder(category, new_folder_name)
update_category_folder(cats, d, c, f, created) ==
    IF c \notin Keys(d) THEN Outcome(FALSE, cats, d)
    ELSE IF ~created THEN Outcome(FALSE, cats, d)
    ELSE Outcome(TRUE, cats, Put(d, c, f))

\* an operation was called and left `o`; the folders of the server are now ex
Operate(op, c, o, ex) ==
    /\ admin' = [op |-> op, category |-> c, result |-> o.result]
    /\ self_categories' = o.categories
    /\ EMAIL_CATEGORIES' = o.map
    /\ existing' = ex
    /\ UNCHANGED <<creator, calls, preamble, call, mailbox, uidnext, selected, session, hasMove, dialect, oversize,
                   dry_run, skip_processed, max_emails_per_run, batch_size,
                   folders_to_process, pc, connection, loop, mover, history>>

\* FolderManager.create_folder reached create_folder_if_not_exists, which
\* answers True when the folder is there or was created
MayCreate(called, created) == created => called

AddCategory ==
    \E c \in CategoryNames, f \in FolderNames :
        /\ pc = "idle"
        /\ Operate("add_category", c,
                   add_category(self_categories, EMAIL_CATEGORIES, c, f), existing)

RemoveCategory ==
    \E c \in CategoryNames :
        /\ pc = "idle"
        /\ Operate("remove_category", c,
                   remove_category(self_categories, EMAIL_CATEGORIES, c), existing)

AddCategoryFolder ==
    \E c \in CategoryNames, f \in FolderNames, created \in BOOLEAN :
        /\ pc = "idle"
        /\ MayCreate(c \notin Keys(EMAIL_CATEGORIES), created)
        /\ Operate("add_category_folder", c,
                   add_category_folder(self_categories, EMAIL_CATEGORIES, c, f, created),
                   IF created THEN existing \cup {f} ELSE existing)

RemoveCategoryFolder ==
    \E c \in CategoryNames :
        /\ pc = "idle"
        /\ Operate("remove_category_folder", c,
                   remove_category_folder(self_categories, EMAIL_CATEGORIES, c),
                   existing)

UpdateCategoryFolder ==
    \E c \in CategoryNames, f \in FolderNames, created \in BOOLEAN :
        /\ pc = "idle"
        /\ MayCreate(c \in Keys(EMAIL_CATEGORIES), created)
        /\ Operate("update_category_folder", c,
                   update_category_folder(self_categories, EMAIL_CATEGORIES, c, f, created),
                   IF created THEN existing \cup {f} ELSE existing)

\* the process after its imports and constructors, no run started
AdminInit ==
    /\ Init
    /\ Len(mailbox["INBOX"]) = 1 /\ hasMove /\ "quoted" \in dialect.sel /\ oversize = {}
    /\ ~dry_run /\ skip_processed /\ max_emails_per_run = 1 /\ batch_size = 1
    /\ folders_to_process = <<"INBOX">>

AdminNext ==
    \/ AddCategory \/ RemoveCategory
    \/ AddCategoryFolder \/ RemoveCategoryFolder \/ UpdateCategoryFolder

AdminSpec == AdminInit /\ [][AdminNext]_vars

----------------------------------------------------------------------------
(* LLMClient.classify_email on the text of an answer.  A text is a sequence
   of characters. *)
UpperCase == <<"A", "B", "C", "D", "E", "F", "G", "H", "I", "J", "K", "L", "M",
               "N", "O", "P", "Q", "R", "S", "T", "U", "V", "W", "X", "Y", "Z">>
LowerCase == <<"a", "b", "c", "d", "e", "f", "g", "h", "i", "j", "k", "l", "m",
               "n", "o", "p", "q", "r", "s", "t", "u", "v", "w", "x", "y", "z">>
Whitespace == {" ", "\t", "\n"}

\* the characters of the category names used
Spell(name) ==
    CASE name = "a"  -> <<"a">>
      [] name = "B"  -> <<"B">>
      [] name = "ab" -> <<"a", "b">>
      [] name = "Ba" -> <<"B", "a">>
      [] name = "bills" -> <<"b", "i", "l", "l", "s">>
      [] name = "promotional" ->
            <<"p", "r", "o", "m", "o", "t", "i", "o", "n", "a", "l">>
      [] name = FALLBACK ->
            <<"r", "e", "q", "u", "i", "r", "e", "s", "_", "m", "a", "n", "u", "a",
              "l", "_", "i", "n", "t", "e", "r", "v", "e", "n", "t", "i", "o", "n">>

\* str.lower()
lower(t) ==
    [i \in 1..Len(t) |->
        IF \E k \in 1..Len(UpperCase) : UpperCase[k] = t[i]
        THEN LowerCase[CHOOSE k \in 1..Len(UpperCase) : UpperCase[k] = t[i]]
        ELSE t[i]]

\* str.strip()
strip(t) ==
    LET solid == {i \in 1..Len(t) : t[i] \notin Whitespace}
    IN  IF solid = {} THEN <<>> ELSE SubSeq(t, Min(solid), Max(solid))

\* `a in b` on strings
In(a, b) == \E i \in 0..(Len(b) - Len(a)) : SubSeq(b, i + 1, i + Len(a)) = a

\* lines 190-201: `if result:`, result.strip().lower(), then the loop over
\* the categories
classify_response(text, cats) ==
    LET cleaned == lower(strip(text))
    IN  llm_classify_email(
            LLMResult(text # <<>>,
                      {c \in Elems(cats) : In(lower(Spell(c)), cleaned)}),
            cats)

\* the answers and category lists the function is applied to
MaxText == 3
Alphabet == {"a", "A", "b", "B", " "}
Texts == UNION {[1..n -> Alphabet] : n \in 1..MaxText}
Names == {"a", "B", "ab", "Ba"}
Lists == {l \in UNION {[1..n -> Names] : n \in 0..3} :
             \A i, j \in 1..Len(l) : l[i] = l[j] => i = j}

LLMClassify ==
    /\ verdict = NoCall
    /\ verdict' = classify_response(response, categories_arg)
    /\ UNCHANGED <<creator, calls, preamble, store, config, pc, connection, loop, mover, history,
                   response, categories_arg>>

OracleInit ==
    /\ Boot
    /\ Len(mailbox["INBOX"]) = 1 /\ hasMove /\ "quoted" \in dialect.sel /\ oversize = {}
    /\ ~dry_run /\ skip_processed /\ max_emails_per_run = 1 /\ batch_size = 1
    /\ folders_to_process = <<"INBOX">>
    /\ response \in Texts /\ categories_arg \in Lists /\ verdict = NoCall

OracleNext == LLMClassify

OracleSpec == OracleInit /\ [][OracleNext]_vars

(* create_folder_if_not_exists *)

\* formats_to_try: the spellings of the folder name given to CREATE, in order
formats_to_try == <<"quoted", "exact", "inbox_dot", "inbox_slash", "folders", "labels">>

\* The mailbox a CREATE of wire name n makes: the server reads a quoted
\* string and an atom as the same name, a prefixed name is another mailbox.
Made(n) == IF n.v = "quoted" THEN Name("exact", n.l) ELSE n

\* get_folders on the creating connection: LIST reports each mailbox under
\* its full name, and the patterns of get_folders return that name; a LIST
\* that fails or raises gives the empty list
listed_folders(listed) == IF listed THEN backend ELSE {}

\* `folder_name in folders`: the list holds the name exactly as given
Known(folder_name, folders) == Name("exact", folder_name) \in folders

program == <<store, config, pc, connection, loop, mover, history, call, preamble, calls>>

CreationFault(broken) == broken => creation.faults < MaxFaults

\* create_folder_if_not_exists(folder_name): entry, and the connect made
\* when there is no connection; a failed connect returns False
CreateFolderIfNotExists ==
    /\ creation.pc \in {"idle", "returned"}
    /\ creation.calls < MaxCreateCalls
    /\ \E folder_name \in FolderNames, connected \in BOOLEAN :
         /\ CreationFault(~connected)
         /\ creation' = [creation EXCEPT
                !.pc = IF connected THEN "list" ELSE "returned",
                !.folder_name = folder_name, !.folders = {}, !.format = 1,
                !.result = FALSE, !.creates = 0, !.made = 0,
                !.calls = @ + 1,
                !.faults = IF connected THEN @ ELSE @ + 1]
    /\ UNCHANGED <<program, backend, refused>>

\* `if folder_name in folders: return True`
ReturnIfKnown(pos, known) ==
    IF known THEN [pos EXCEPT !.pc = "returned", !.result = TRUE,
                              !.succeeded = @ \cup {pos.folder_name}]
    ELSE [pos EXCEPT !.pc = "create"]

\* folders = self.get_folders(), and the membership test
GetFolders ==
    /\ creation.pc = "list"
    /\ \E listed \in BOOLEAN :
         /\ CreationFault(~listed)
         /\ LET folders == listed_folders(listed)
                pos == [creation EXCEPT !.folders = folders,
                            !.faults = IF listed THEN @ ELSE @ + 1]
            IN  creation' = ReturnIfKnown(pos, Known(creation.folder_name, folders))
    /\ UNCHANGED <<program, backend, refused>>

\* one pass of `for folder_format in formats_to_try`: connection.create
\* answers OK (the mailbox did not exist and the server takes the name),
\* answers NO (a mailbox that exists is always refused, and a name the
\* server refused once stays refused), or raises; after the last format
\* the call returns False
TryFormat ==
    /\ creation.pc = "create"
    /\ LET n == Name(formats_to_try[creation.format], creation.folder_name)
           last == creation.format = Len(formats_to_try)
       IN  \E status \in {"OK", "NO", "raise"} :
             /\ CreationFault(status = "raise")
             /\ status = "OK" => (Made(n) \notin backend /\ n \notin refused)
             /\ backend' = IF status = "OK" THEN backend \cup {Made(n)} ELSE backend
             /\ refused' = IF status = "NO" /\ Made(n) \notin backend
                           THEN refused \cup {n} ELSE refused
             /\ creation' = [creation EXCEPT
                    !.creates = @ + 1,
                    !.made = IF status = "OK" THEN @ + 1 ELSE @,
                    !.faults = IF status = "raise" THEN @ + 1 ELSE @,
                    !.result = status = "OK",
                    !.succeeded = IF status = "OK"
                                  THEN @ \cup {creation.folder_name} ELSE @,
                    !.pc = IF status = "OK" \/ last THEN "returned" ELSE "create",
                    !.format = IF status = "OK" \/ last THEN @ ELSE @ + 1]
    /\ UNCHANGED program

FolderInit ==
    /\ Init
    /\ Len(mailbox["INBOX"]) = 1 /\ hasMove /\ "quoted" \in dialect.sel /\ oversize = {}
    /\ ~dry_run /\ skip_processed /\ max_emails_per_run = 1 /\ batch_size = 1
    /\ folders_to_process = <<"INBOX">>

FolderNext == CreateFolderIfNotExists \/ GetFolders \/ TryFormat

FolderSpec == FolderInit /\ [][FolderNext]_vars

TypeOK == pc \in {"idle", "ensure", "preflight", "connect", "cache", "folder", "batch", "fetch",
                  "classify", "route", "mark", "mv_exists", "mv_select", "mv_try",
                  "mv_copy", "mv_del", "mv_expunge", "mv_ret", "finish", "done",
                  "unwind", "raised"}
          /\ connection \in BOOLEAN
          /\ session \in {"closed", "open", "auth", "lost"}

----------------------------------------------------------------------------
(* Vocabulary of the properties *)

\* the message with this UID is in folder f of the store mb
Holds(mb, f, uid) == UidPos(mb, f, uid) # {}

\* ... and carries `flag` there
HasFlag(mb, f, uid, flag) ==
    \E i \in UidPos(mb, f, uid) : flag \in mb[f][i].flags

\* every command of this run was answered successfully: nothing failed
\* spuriously and the server takes folder names as they are written
Cooperative == faults = faults0 /\ "exact" \in dialect.sel

\* how often message m was fetched (and classified) in this run
TimesFetched(m) == Cardinality({r \in fetched : r.m = m})

\* C1: at the end of a run in which the cap cut nothing off and every command
\* was answered successfully, every message that a source folder's query
\* returned (and that is not over the size limit) was fetched and classified
\* exactly once in that run.
C1_ExactlyOncePerRun ==
    (pc = "done" /\ Cooperative /\ ~truncated)
        => \A q \in queried : q.m \notin oversize => TimesFetched(q.m) = 1

C4_RunCap ==
    (pc = "done" /\ faults = faults0)
        => /\ processed_count <= max_emails_per_run
           /\ \A b \in beyond :
                 /\ Holds(mailbox, b[1], b[2])
                 /\ ~\E r \in fetched : r.f = b[1] /\ r.uid = b[2]
                 /\ HasFlag(mailbox, b[1], b[2], PROCESSED) => b \in markedPrev

\* C3 (as stated): whatever skip_processed is, no message that an earlier run
\* flagged PROCESSED is among the ids get_unprocessed_emails returns.
C3_FlaggedNeverQueriedAgain ==
    \A q \in queried : <<q.f, q.uid>> \notin markedPrev

\* C3 (amended): with skip_processed enabled, no message that an earlier run
\* flagged PROCESSED is among the ids get_unprocessed_emails returns.
C3_FlaggedSkippedWhenSkipping ==
    skip_processed => \A q \in queried : <<q.f, q.uid>> \notin markedPrev

\* a later run queried a folder that holds both a message flagged earlier and
\* an unflagged one, and returned the unflagged one only
C3_Witness ==
    /\ skip_processed /\ run > 1
    /\ \E q \in queried, k \in markedPrev :
          k[1] = q.f /\ Holds(mailbox, k[1], k[2]) /\ k # <<q.f, q.uid>>

\* the message being handled, where fetch_email found it
Current == mailbox[selected][email_id]

\* C5: move_email never makes more than 3 attempts; when none of them got the
\* message copied or moved it returns, after exactly 3 attempts, False, having
\* flagged the message PROCESSED (unless that store failed).
C5_RetryBound ==
    /\ attempts <= 3
    /\ (pc = "mv_ret" /\ attempts > 0 /\ ~moveOk) =>
          /\ attempts = 3
          /\ ret = FALSE
          /\ "mark" \in cmds \/ "markfail" \in cmds
          /\ "mark" \in cmds =>
                Current.mid = email_data /\ PROCESSED \in Current.flags

C5_Witness ==
    /\ pc = "mv_ret" /\ attempts = 3 /\ ~moveOk /\ ~ret
    /\ "mark" \in cmds /\ PROCESSED \in Current.flags

\* the oracle's output for the message being routed is no key of the map
NoMatch ==
    oracle.via = "llm" /\
    llm_classify_email(oracle, categories(EMAIL_CATEGORIES)) = None
Routed == pc \notin {"classify", "route"} /\ oracle.via # "none"

Unresolvable(d) ==
    /\ \A i \in 1..Len(list_formats) : Name(list_formats[i], d) \notin get_folders
    /\ \A i \in 1..Len(probe_formats) : BoxOf(Name(probe_formats[i], d)) = NoBox

MoveCmds == {"move", "copy", "delete", "expunge"}

\* the messages of every folder, in order, leaving the PROCESSED flag aside
Content(mb) ==
    [b \in Boxes |-> [i \in 1..Len(mb[b]) |->
                        [mb[b][i] EXCEPT !.flags = @ \ {PROCESSED}]]]

CopiedNotDeleted == cmds \cap {"delete_no", "expunge_no"} # {}

\* C8 (as stated): when the copy succeeded but the \Deleted store or the
\* expunge failed, move_email flags the message and returns failure.
C8_PartialIsFailure ==
    (pc = "mv_ret" /\ CopiedNotDeleted) =>
        /\ ret = FALSE
        /\ "mark" \in cmds => PROCESSED \in Current.flags

\* C8 (amended): when the copy succeeded but the \Deleted store or the expunge
\* answered with a non-OK status, move_email flags the message PROCESSED
\* (unless that store failed) and returns True; the message is then in both
\* folders.
C8_PartialIsSuccess ==
    (pc = "mv_ret" /\ CopiedNotDeleted) =>
        /\ ret = TRUE
        /\ "mark" \in cmds \/ "markfail" \in cmds
        /\ "mark" \in cmds =>
              Current.mid = email_data /\ PROCESSED \in Current.flags
        /\ \E i \in 1..Len(mailbox[destination_folder]) :
              mailbox[destination_folder][i].mid = email_data

C8_Witness ==
    /\ pc = "mv_ret" /\ "expunge_no" \in cmds /\ ret
    /\ "mark" \in cmds /\ {PROCESSED, Deleted} \subseteq Current.flags

\* number of messages of this run whose handling ended in one of `outs`
Ended(outs) == Cardinality({r \in fetched : r.out \in outs})

\* C9 (as stated): the success count a run returns is the number of messages
\* moved plus the number handled as "would move"; partial successes,
\* exhausted retries, unknown categories and errors are not counted.
C9_SuccessIsMovedOrWouldMove ==
    pc = "done" => success_count = Ended({"moved", "would_move"})

\* C9 (amended): the success count a run returns is the number of messages
\* for which move_email returned True (the move completed, or the copy
\* succeeded and the \Deleted store or expunge answered non-OK) plus the
\* number handled as "would move"; nothing else is counted.
C9_SuccessAccounting ==
    pc = "done" => success_count = Ended({"moved", "partial", "would_move"})

C9_Witness ==
    /\ pc = "done" /\ success_count = 1
    /\ Ended({"partial"}) = 1
    /\ Ended({"unknown", "error", "exhausted", "nodest", "noselect"}) = 1

\* C10: in a dry run no message enters move_email and no MOVE, copy, \Deleted
\* store or expunge is issued; every folder keeps exactly the messages it
\* held when the run started, and every message handled is flagged PROCESSED
\* (no store of the flag having failed).
C10_DryRun ==
    dry_run =>
        /\ pc \notin {"mv_exists", "mv_select", "mv_try", "mv_copy", "mv_del",
                      "mv_expunge", "mv_ret"}
        /\ cmds = {}
        /\ Content(mailbox) = Content(mailbox0)
        /\ \A r \in fetched :
              /\ r.out \in {"pending", "would_move", "unknown", "error"}
              /\ (r.out # "pending" /\ faults = faults0) =>
                    HasFlag(mailbox, r.f, r.uid, PROCESSED)

C10_Witness ==
    /\ dry_run /\ pc = "mark" /\ markctx = "dry"
    /\ destination_folder = ManualDir /\ CacheGet(ManualDir)
    /\ \E r \in fetched :
          r.out = "would_move" /\ HasFlag(mailbox, r.f, r.uid, PROCESSED)

\* C11 (as stated): when process_emails has returned, whatever the exit path,
\* the session opened for the run has been logged out (or the logout was
\* attempted and the handle dropped) and the processor holds no connection
\* handle.
C11_SessionReleased ==
    pc = "done" => ~connection /\ session \in {"closed", "lost"}

\* C12: when connect fails at the start of process_emails (no socket, or the
\* login refused), the run ends there with the counts (0, 0): no folder is
\* listed or selected, nothing is searched, fetched, stored, copied, moved
\* or expunged, and the oracle is not invoked.
C12_ConnectionFailureIsFatal ==
    [][(pc = "connect" /\ session' # "auth") =>
          /\ pc' = "done"
          /\ processed_count' = 0 /\ success_count' = 0
          /\ mailbox' = mailbox0 /\ uidnext' = uidnext
          /\ selected' = NoBox
          /\ folder_exists_cache' = [f \in {} |-> FALSE]
          /\ queried' = {} /\ fetched' = {} /\ beyond' = {}
          /\ cmds' = cmds /\ attempts' = attempts
          /\ oracle' = NoOracle]_vars

C12_Witness ==
    /\ pc = "done" /\ session = "open" /\ connection
    /\ processed_count = 0 /\ success_count = 0
    /\ fetched = {} /\ queried = {}
    /\ \E i \in 1..Len(mailbox["INBOX"]) : PROCESSED \notin mailbox["INBOX"][i].flags

\* C13: no failure while one message is handled (failed fetch, oracle
\* exception, unresolved folder, source folder not selectable, retries
\* exhausted, failed flag store) ends the batch: the ids of the folder's query
\* are passed to fetch_email one after the other, all of them by the time the
\* folder is left, and the run ends only where its loops end.
C13_BatchNeverAborted ==
    /\ pc = "batch" => tried = SubSeq(email_ids, 1, Min({bstart, Len(email_ids)}))
    /\ pc = "fetch" => tried = SubSeq(email_ids, 1, bstart + bpos - 1)
    /\ pc \in {"classify", "route", "mark", "mv_exists", "mv_select", "mv_try",
               "mv_copy", "mv_del", "mv_expunge", "mv_ret"} =>
          /\ bpos <= Len(batch)
          /\ tried = SubSeq(email_ids, 1, bstart + bpos)
    /\ (pc = "batch" /\ bstart >= Len(email_ids)) => tried = email_ids
    /\ pc = "finish" =>
          \/ fidx > Len(folders_to_process)
          \/ processed_count >= max_emails_per_run

\* the first of two ids failed (no source folder, retries exhausted,
\* destination gone, oracle exception) and the second was fetched as well
C13_Witness ==
    /\ pc = "batch" /\ bstart >= Len(email_ids)
    /\ Len(email_ids) = 2 /\ tried = email_ids
    /\ run = 1 /\ processed_count = 2
    /\ \E r \in fetched :
          r.m = 1 /\ r.out \in {"error", "exhausted", "nodest", "noselect"}

\* the message m is in the folder box, once, not flagged PROCESSED, and in no
\* other folder
Untouched(m, box) ==
    /\ Cardinality({i \in 1..Len(mailbox[box]) : mailbox[box][i].mid = m}) = 1
    /\ \A i \in 1..Len(mailbox[box]) :
          mailbox[box][i].mid = m => PROCESSED \notin mailbox[box][i].flags
    /\ \A b \in Boxes \ {box} : \A i \in 1..Len(mailbox[b]) : mailbox[b][i].mid # m

\* the oracle is never given an oversized message and none is counted
C14_OversizeNeverClassified ==
    /\ email_data \notin oversize
    /\ \A r \in fetched : r.m \notin oversize

C15_FallbackNeverRemoved ==
    /\ [](FALLBACK \in Keys(EMAIL_CATEGORIES) /\ FALLBACK \in Elems(self_categories))
    /\ [][(/\ admin'.op \in {"remove_category", "remove_category_folder"}
           /\ admin'.category = FALLBACK)
          => /\ admin'.result = FALSE
             /\ UNCHANGED <<EMAIL_CATEGORIES, self_categories>>]_vars

\* a remove of the fallback category was refused after another category had
\* been removed and the fallback's folder changed
C15_Witness ==
    /\ admin = [op |-> "remove_category", category |-> FALLBACK, result |-> FALSE]
    /\ "bills" \notin Keys(EMAIL_CATEGORIES)
    /\ Unrecognized \in Elems(self_categories)
    /\ Get(EMAIL_CATEGORIES, FALLBACK) = PromoDir

\* the categories of the text whose lower-cased name is a substring of the
\* lower-cased text, by their positions in the list
Matching(text, cats) ==
    {i \in 1..Len(cats) : In(lower(Spell(cats[i])), lower(text))}

\* "This looks like a Bills notification." and bills, promotional, fallback
ExampleResponse ==
    <<"T", "h", "i", "s", " ", "l", "o", "o", "k", "s", " ", "l", "i", "k", "e",
      " ", "a", " ", "B", "i", "l", "l", "s", " ", "n", "o", "t", "i", "f", "i",
      "c", "a", "t", "i", "o", "n", ".">>
ExampleCategories == <<"bills", "promotional", FALLBACK>>

\* C16: for a non-empty answer and an ordered category list,
\* LLMClient.classify_email returns the first category, in list order, whose
\* lower-cased name is a substring of the lower-cased answer, and None when
\* there is none; "This looks like a Bills notification." gives bills.
C16_LabelMatching ==
    /\ verdict # NoCall =>
          verdict = IF Matching(response, categories_arg) = {} THEN None
                    ELSE categories_arg[Min(Matching(response, categories_arg))]
    /\ classify_response(ExampleResponse, ExampleCategories) = "bills"

\* two categories of the list match the answer, in different letter case, and
\* the first of them in the list is not the first in the text
C16_Witness ==
    /\ verdict = "Ba"
    /\ categories_arg = <<"Ba", "ab">>
    /\ response = <<"A", "b", "A">>

\* C17 (as stated): folder_exists answers False for a label only if none of
\* the names derived from it can be selected and none of its variants is in
\* the folder list; whenever some candidate is selectable or listed the
\* answer is True.  (The answers are those kept in folder_exists_cache.)
C17_FalseOnlyWhenNothingMatches ==
    \A f \in DOMAIN folder_exists_cache :
        ~folder_exists_cache[f] => Unresolvable(f)

\* the label is in the folder list under a spelling folder_exists looks for;
\* some select probe of folder_exists finds it
Listed(d) == \E i \in 1..Len(list_formats) : Name(list_formats[i], d) \in get_folders
Probed(d) == \E i \in 1..Len(probe_formats) : BoxOf(Name(probe_formats[i], d)) # NoBox

\* C18 (as stated): the calls of folder_exists (for the cache, and in
\* move_email) leave the selected mailbox as it was before the call.
C18_SelectionPreserved ==
    [][(pc = "cache" \/ pc = "mv_exists") => selected' = selected]_vars

\* C18 (amended): folder_exists leaves the selection alone only when it gets
\* its answer without a select (the label is in the folder list, or the LIST
\* command raised).  After a successful probe INBOX is selected, whatever was
\* selected before; after probes that all failed no mailbox is selected.
C18_SelectionAfterFolderExists ==
    [][/\ pc = "mv_exists" =>
            selected' = IF faults' # faults \/ Listed(destination_folder)
                        THEN selected
                        ELSE IF Probed(destination_folder) THEN "INBOX" ELSE NoBox
       /\ pc = "cache" =>
            LET last == EMAIL_CATEGORIES[Len(EMAIL_CATEGORIES)][2]
            IN  /\ selected' \in {selected, "INBOX", NoBox}
                /\ (faults' = faults /\ ~Listed(last)) =>
                        selected' = IF Probed(last) THEN "INBOX" ELSE NoBox]_vars

\* move_email checked the destination of a message of Folders/ManualReview
\* by a successful probe: INBOX is selected now
C18_Witness ==
    /\ pc = "mv_select" /\ folder = ManualDir
    /\ ~Listed(destination_folder) /\ Probed(destination_folder)
    /\ selected = "INBOX"

\* C19 (as stated): within a run every resolution of a label gives the same
\* result: the verdict of folder_exists inside move_email is the one the run
\* computed for that folder at its start (folder_exists_cache).
C19_VerdictsAgree ==
    [][pc = "mv_exists" =>
          (pc' = "mv_select") = CacheGet(destination_folder)]_vars

\* the MOVE command of this attempt is issued and answers OK: the server
\* advertises MOVE, takes the destination name as written, nothing fails
MoveAnswersOk ==
    /\ pc = "mv_try" /\ hasMove /\ faults' = faults
    /\ BoxOf(Name("exact", destination_folder)) # NoBox

HasCopy(b, i) ==
    \E d \in DestLabels : \E j \in 1..Len(mailbox[d]) :
        /\ <<d, j>> # <<b, i>>
        /\ mailbox[d][j].mid = mailbox[b][i].mid

Handled(outs) ==
    \E r \in fetched : r.f = folder /\ r.m = email_data /\ r.out \in outs

\* this step settles the outcome of the message being handled as one of outs
Settles(outs) == \E r \in fetched' \ fetched : r.out \in outs

\* a store of the PROCESSED flag was issued by move_email for the message
MarkIssued == cmds \cap {"mark", "markfail"} # {}

\* C22 (as stated): when move_email reaches a terminal outcome for a message
\* (moved, no destination, retries exhausted), a PROCESSED flag store is
\* issued for the message.
C22_TerminalStatesAreMarked ==
    [][Settles({"moved", "nodest", "exhausted"}) => MarkIssued']_vars

\* C22 (amended): move_email issues the PROCESSED store when it ends without
\* a destination, with its retries exhausted or as a partial success, and
\* issues none for a message it moved.  Once move_email has returned, no
\* MOVE, copy, \Deleted store or expunge follows in the handling of that
\* id: the caller marks the message if the result was False and goes on to
\* the next id.
C22_TerminalOutcomes ==
    /\ [][Settles({"nodest", "exhausted"}) =>
                (MarkIssued' /\ pc' = "mv_ret" /\ ~ret')]_vars
    /\ [][Settles({"partial"}) =>
                (MarkIssued' /\ pc' = "mv_ret" /\ ret')]_vars
    /\ [][Settles({"moved"}) =>
                (~MarkIssued' /\ pc' = "mv_ret" /\ ret')]_vars
    /\ [][pc = "mv_ret" =>
                /\ Content(mailbox') = Content(mailbox)
                /\ pc' = (IF ret THEN "fetch" ELSE "mark")
                /\ (~ret => (markctx' = "failed" /\ cmds' = cmds))]_vars
    /\ [][(pc = "mark" /\ markctx = "failed") =>
                /\ Content(mailbox') = Content(mailbox)
                /\ pc' = "fetch"]_vars

\* move_email gave up after its retries, having issued the PROCESSED store,
\* and the caller is about to mark the message again
C22_Witness ==
    /\ pc = "mark" /\ markctx = "failed"
    /\ Handled({"exhausted"}) /\ "mark" \in cmds
    /\ PROCESSED \in Current.flags

\* C23: a processing run (folder check, pre-flight, classification, moves)
\* creates no folder: the set of folders on the server never changes in the
\* course of main.process_emails, whatever folders are missing.
C23_NoFolderCreated == [][existing' = existing]_vars

\* a run ended in which a message was classified into a category whose
\* folder is missing, and the folder is still missing
C23_Witness ==
    /\ pc = "done" /\ run >= 1 /\ llm_ok
    /\ \E r \in fetched : r.out = "nodest"
    /\ \E f \in Folders(EMAIL_CATEGORIES) : f \notin existing

\* a session the server still holds: the socket is connected, logged in or not
Open(s) == s \in {"open", "auth"}

\* C24: at every moment of main's processing flow at most one mail-store
\* connection is open: the session of FolderManager's processor is closed
\* before the run's EmailProcessor opens its own, also after a failed login.
C24_SingleConnection == ~(Open(fm_session) /\ Open(session))

\* C25 (as stated): with skip_processed enabled, when the folder was selected
\* and the 'NOT KEYWORD PROCESSED' search fails, get_unprocessed_emails
\* returns what searching 'ALL' returns (up to the limit), not an empty list.
C25_KeywordSearchFallsBack ==
    [][(pc = "folder" /\ skip_processed /\ faults' > faults
            /\ selected' # NoBox) =>
        email_ids' = Take(search_emails(selected', "ALL"),
                          max_emails_per_run - processed_count)]_vars

\* C26: when the LLM connection test fails, main.process_emails returns
\* (0, 0) at once: the run's processor never connects, and no message is
\* queried, fetched, flagged, copied, moved or expunged.
C26_PreflightFailureEndsRun ==
    /\ [][(pc = "preflight" /\ ~llm_ok') =>
            (pc' = "done" /\ mailbox' = mailbox /\ uidnext' = uidnext)]_vars
    /\ []((pc = "done" /\ ~llm_ok) =>
            /\ processed_count = 0 /\ success_count = 0
            /\ mailbox = mailbox0
            /\ queried = {} /\ fetched = {} /\ tried = <<>> /\ cmds = {}
            /\ ~connection /\ session = "closed")

\* the test failed in a run whose INBOX held a message waiting to be handled
C26_Witness ==
    /\ pc = "done" /\ run >= 1 /\ ~llm_ok
    /\ \E i \in 1..Len(mailbox["INBOX"]) :
           PROCESSED \notin mailbox["INBOX"][i].flags

\* C27: a rejected category operation changes nothing.  Adding a category
\* whose name the object already holds, and removing one it does not hold
\* or the fallback, return False; an add or update of FolderManager returns
\* True only when the folder exists afterwards (a failed folder creation
\* makes it return False); and every operation that returns False leaves
\* the category map and the classifier's category list as they were.
C27_RejectedChangesNothing ==
    /\ [][admin'.result = FALSE =>
            UNCHANGED <<EMAIL_CATEGORIES, self_categories>>]_vars
    /\ [][LET c == admin'.category
              op == admin'.op
          IN  (\/ op = "add_category" /\ c \in Elems(self_categories)
               \/ op = "add_category_folder" /\ c \in Keys(EMAIL_CATEGORIES)
               \/ op = "remove_category"
                     /\ (c \notin Elems(self_categories) \/ c = FALLBACK)
               \/ op \in {"remove_category_folder", "update_category_folder"}
                     /\ c \notin Keys(EMAIL_CATEGORIES)
               \/ op = "remove_category_folder" /\ c = FALLBACK)
              => admin'.result = FALSE]_vars
    /\ [][(/\ admin'.op \in {"add_category_folder", "update_category_folder"}
           /\ admin'.result = TRUE)
          => Get(EMAIL_CATEGORIES', admin'.category) \in existing']_vars

\* an add of a new category was rejected because its folder could not be
\* created, after the classifier's list and the map had drifted apart
C27_Witness ==
    /\ admin = [op |-> "add_category_folder", category |-> Unrecognized,
                result |-> FALSE]
    /\ Unrecognized \notin Keys(EMAIL_CATEGORIES)
    /\ "bills" \notin Elems(self_categories)
    /\ "bills" \in Keys(EMAIL_CATEGORIES)

\* the positions of process_emails inside `for email_id in batch`
InBatch ==
    pc \in {"fetch", "classify", "route", "mark", "mv_exists", "mv_select",
            "mv_try", "mv_copy", "mv_del", "mv_expunge", "mv_ret"}

\* process_emails has not raised
NoRaise == pc \notin {"unwind", "raised"}

\* the batch is a run of at most batch_size consecutive ids of the folder's
\* query, starting at a multiple of batch_size, and the ids before the
\* current one were passed to fetch_email in query order, each once
BatchShape ==
    InBatch =>
        /\ Len(batch) >= 1 /\ Len(batch) <= batch_size
        /\ bstart % batch_size = 0
        /\ bstart + Len(batch) <= Len(email_ids)
        /\ batch = SubSeq(email_ids, bstart + 1, bstart + Len(batch))
        /\ (Len(batch) = batch_size \/ bstart + Len(batch) = Len(email_ids))
        /\ tried = SubSeq(email_ids, 1,
                          bstart + (IF pc = "fetch" THEN bpos - 1 ELSE bpos))

\* between batches the ids of the batches done were tried, and all the ids
\* of the query by the time the folder is left
FolderLeft ==
    (pc = "batch" /\ pc' # "batch") =>
        /\ tried = SubSeq(email_ids, 1, Min({bstart, Len(email_ids)}))
        /\ (pc' = "folder" => tried = email_ids)

\* C28 (as stated): for every configured batch_size the ids of a folder's
\* query are split into consecutive batches of at most batch_size ids, every
\* id is handled once and in query order, and the run does not raise.
C28_BatchPartition ==
    /\ [](NoRaise /\ BatchShape)
    /\ [][FolderLeft]_vars

\* the partition as it holds of the code: for every batch_size >= 1
BatchPartitionPositive ==
    /\ [](batch_size >= 1 => (NoRaise /\ BatchShape))
    /\ [][batch_size >= 1 => FolderLeft]_vars

\* two ids were handled in two batches of one id each
BatchPartitionReached ==
    /\ pc = "batch" /\ batch_size = 1 /\ bstart = 2
    /\ Len(email_ids) = 2 /\ tried = email_ids
    /\ processed_count = 2

\* the messages (by identity) that a folder holds
Mids(mb, b) == {mb[b][i].mid : i \in 1..Len(mb[b])}

Waiting ==
    \E i \in 1..Len(folders_to_process) :
        LET b == select_folder(folders_to_process[i], FALSE)
        IN  /\ b # NoBox
            /\ \E k \in 1..Len(mailbox[b]) :
                  /\ PROCESSED \notin mailbox[b][k].flags
                  /\ mailbox[b][k].mid \notin oversize

\* C30 (as stated, as the safety property it implies): with a backend that
\* answers every command, no run that found messages to handle ends having
\* fetched none and changed nothing in the store while an unflagged message
\* within the size ceiling waits in a source folder.  Such a run is
\* repeated identically by every later run, and the waiting message is
\* never fetched and classified.
C30_NoFruitlessRun ==
    ~(/\ pc = "done" /\ run >= 1 /\ faults = 0 /\ llm_ok
      /\ queried # {} /\ fetched = {}
      /\ mailbox = mailbox0
      /\ Waiting)

\* C31 (as stated): once a copy command of a move_email call has answered OK
\* (the copy is in the destination), no later attempt of the same call
\* places another copy of the message in a folder, also when the \Deleted
\* store or the expunge that followed raised an exception.
C31_AtMostOneCopy ==
    [][(pc = "mv_copy" /\ moveOk) =>
        \A b \in Boxes : Len(mailbox'[b]) <= Len(mailbox[b])]_vars

\* C32 (as stated): whenever a PROCESSED or \Deleted store, a copy or an
\* expunge is about to be issued for the current id, the mailbox selected in
\* the session is the folder in which the id was searched, also after the
\* probes of folder_exists and after a failed selection of the source folder.
C32_CommandsInSourceFolder ==
    pc \in {"mark", "mv_copy", "mv_del", "mv_expunge"} =>
        selected = select_folder(folder, FALSE)

\* the labels the classifier can return are the keys of the category map
InStep == Elems(self_categories) = Keys(EMAIL_CATEGORIES)

\* C33 (as stated): after any sequence of add and remove operations of
\* FolderManager and EmailClassifier, the set of labels the classifier can
\* return equals the key set of the category map.
C33_ClassifierAndMapInStep == InStep

\* C33 (amended): the operations of EmailClassifier keep its labels and the
\* keys of the category map in step; the operations of FolderManager change
\* the map only, never the classifier's list; and a successful FolderManager
\* add or remove issued when the two were in step, followed by the
\* classifier's operation for the same category (the pair main issues),
\* succeeds and brings the two back in step.
C33_InStepByPairs ==
    /\ [][(InStep /\ admin'.op \in {"add_category", "remove_category"})
            => InStep']_vars
    /\ [][admin'.op \in {"add_category_folder", "remove_category_folder",
                          "update_category_folder"}
            => self_categories' = self_categories]_vars
    /\ [][(/\ admin.op = "add_category_folder" /\ admin.result
           /\ admin.category \notin Elems(self_categories)
           /\ Keys(EMAIL_CATEGORIES) = Elems(self_categories) \cup {admin.category}
           /\ admin'.op = "add_category" /\ admin'.category = admin.category)
            => (admin'.result /\ InStep')]_vars
    /\ [][(/\ admin.op = "remove_category_folder" /\ admin.result
           /\ admin.category \notin Keys(EMAIL_CATEGORIES)
           /\ Elems(self_categories) = Keys(EMAIL_CATEGORIES) \cup {admin.category}
           /\ admin'.op = "remove_category" /\ admin'.category = admin.category)
            => (admin'.result /\ InStep')]_vars

\* the classifier's add_category entered a new category, "bills" having
\* been removed from the list and the map, and the two are in step
C33_Witness ==
    /\ admin = [op |-> "add_category", category |-> Unrecognized, result |-> TRUE]
    /\ InStep
    /\ Unrecognized \in Keys(EMAIL_CATEGORIES)
    /\ "bills" \notin Keys(EMAIL_CATEGORIES)

\* C34: at every point of process_emails and on return,
\* 0 <= success_count <= processed_count, and processed_count is the number
\* of messages for which processor_func was called in the run (the message
\* just counted, whose call is the next statement, included).
C34_CounterInvariant ==
    /\ 0 <= success_count /\ success_count <= processed_count
    /\ processed_count = invoked + (IF pc = "classify" THEN 1 ELSE 0)

\* a run ended that called the oracle for two messages, one of which
\* counted as a success
C34_Witness ==
    /\ pc = "done" /\ invoked = 2
    /\ processed_count = 2 /\ success_count = 1

\* create_folder_if_not_exists issues no create command for a folder that
\* its folder list holds
KnownIssuesNoCreate ==
    Known(creation.folder_name, creation.folders) =>
        (creation.creates = 0 /\ creation.pc = "returned" /\ creation.result)

\* create_folder_if_not_exists stops at the first create that returns OK:
\* a call makes at most one folder and returns True once it has made one
StopsAtFirstOK ==
    /\ creation.made <= 1
    /\ creation.made = 1 => (creation.pc = "returned" /\ creation.result)

\* a call for a name for which an earlier call returned True makes no
\* folder on the backend
SecondCallCreatesNothing ==
    [][(creation.pc \in {"list", "create"}
        /\ creation.folder_name \in creation.succeeded) => backend' = backend]_vars

\* C35: folder creation is idempotent: no create command is issued for a
\* folder already known, the call stops at the first create that returns OK,
\* and a second call for the same name after a successful first call creates
\* no further folder on the backend.
C35_CreateIdempotent ==
    /\ []KnownIssuesNoCreate
    /\ []StopsAtFirstOK
    /\ SecondCallCreatesNothing

====
